---------------------------- MODULE Spec2Model ----------------------------
(***************************************************************************)
(* Model of csv_to_umap_geojson.py: the address pipeline that builds a     *)
(* canonical address per CSV row, resolves it through a two-layer JSON     *)
(* cache (geocache.json, geocache_new.json) or through Nominatim, and      *)
(* classifies every row into the geocoded / not_geocoded / incomplete /    *)
(* duplicates collections.                                                 *)
(*                                                                         *)
(* Text is modelled as a sequence of one-character strings, a JSON value   *)
(* as a tagged record (object, array, null; numbers are integers), a file  *)
(* as absent or as text that either parses to a JSON value or does not.    *)
(***************************************************************************)
EXTENDS Integers, Sequences, FiniteSets, TLC

(***************************************************************************)
(* Bounds of the model.                                                    *)
(***************************************************************************)
MaxRows == 3

MaxRuns == 2

(***************************************************************************)
(* Python values.                                                          *)
(***************************************************************************)
\* Python's None where a text is expected (a CSV cell None, the --limit default)
None == <<"None">>

Whitespace == {" "}

Digits == {"0", "1", "2", "3", "4", "5", "6", "7", "8", "9"}

DigitVal(c) ==
    CASE c = "0" -> 0 [] c = "1" -> 1 [] c = "2" -> 2 [] c = "3" -> 3
      [] c = "4" -> 4 [] c = "5" -> 5 [] c = "6" -> 6 [] c = "7" -> 7
      [] c = "8" -> 8 [] c = "9" -> 9

\* str.strip(): leading and trailing whitespace removed
RECURSIVE lstrip(_)
lstrip(s) ==
    IF s # <<>> /\ Head(s) \in Whitespace THEN lstrip(Tail(s)) ELSE s

RECURSIVE rstrip(_)
rstrip(s) ==
    IF s # <<>> /\ s[Len(s)] \in Whitespace
    THEN rstrip(SubSeq(s, 1, Len(s) - 1))
    ELSE s

strip(s) == rstrip(lstrip(s))

\* ", ".join(parts)
RECURSIVE join(_)
join(parts) ==
    IF parts = <<>> THEN <<>>
    ELSE IF Len(parts) = 1 THEN parts[1]
    ELSE parts[1] \o <<",", " ">> \o join(Tail(parts))

\* float(text): the value of a decimal text, "raise" for a text that is no number
RECURSIVE DecimalValue(_)
DecimalValue(s) ==
    IF s = <<>> THEN 0
    ELSE 10 * DecimalValue(SubSeq(s, 1, Len(s) - 1)) + DigitVal(s[Len(s)])

IsDecimal(s) == s # <<>> /\ \A i \in 1..Len(s) : s[i] \in Digits

(***************************************************************************)
(* build_address (lines 29-39).                                            *)
(***************************************************************************)
keys == <<"NumeroVoie", "LibelleVoie", "Complement1", "Complement2",
          "LieuDit", "CodePostal", "CommuneAdresse", "Pays">>

\* row.get(k, default)
RowGet(row, k, default) == IF k \in DOMAIN row THEN row[k] ELSE default

\* line 35: v is None or str(v).strip() == ""
IsBlank(v) == v = None \/ strip(v) = <<>>

RECURSIVE BuildParts(_, _)
BuildParts(row, n) ==
    IF n = 0 THEN <<>>
    ELSE LET v == RowGet(row, keys[n], <<>>)
         IN  IF IsBlank(v) THEN BuildParts(row, n - 1)
             ELSE Append(BuildParts(row, n - 1), strip(v))

RECURSIVE BuildMissing(_, _)
BuildMissing(row, n) ==
    IF n = 0 THEN <<>>
    ELSE LET v == RowGet(row, keys[n], <<>>)
         IN  IF IsBlank(v) THEN Append(BuildMissing(row, n - 1), keys[n])
             ELSE BuildMissing(row, n - 1)

build_address(row) ==
    [address |-> join(BuildParts(row, Len(keys))),
     missing |-> BuildMissing(row, Len(keys))]

(***************************************************************************)
(* JSON values and files.                                                  *)
(***************************************************************************)
JObject(f) == [t |-> "object", v |-> f]

\* an array keeps its items under one field, so that any two values compare
JArray(s) == [t |-> "array", v |-> [items |-> s]]

JNull == [t |-> "null"]

EmptyDict == JObject(<<>>)

IsDict(j) == j.t = "object"

DictKeys(j) == IF IsDict(j) THEN DOMAIN j.v ELSE {}

\* a file: absent, or text that is empty, is no JSON, or is the JSON of a value
Absent == [kind |-> "absent"]

EmptyText == [kind |-> "empty"]

Garbage == [kind |-> "garbage"]

JsonText(j) == [kind |-> "json", value |-> j]

\* lines 41-48: a missing file or text json.loads rejects gives {}; any other
\* text gives whatever value it denotes, a dict or not
load_cache(file) ==
    IF file.kind = "json" THEN file.value ELSE EmptyDict

\* line 51, second half: f.write(json.dumps(cache)) into the opened file
save_cache(cache) == JsonText(cache)

\* line 51, first half: Path.write_text opens the file with mode "w", which
\* truncates it before anything is written
open_for_write(file) == EmptyText

\* the keys a later load_cache of the file will see
FileKeys(file) == DictKeys(load_cache(file))

(***************************************************************************)
(* Python's container operations on a loaded JSON value.                   *)
(***************************************************************************)
\* key in c: raises TypeError on None
ContainsRaises(c) == c.t = "null"

Contains(c, key) ==
    CASE c.t = "object" -> key \in DOMAIN c.v
      [] c.t = "array" -> \E n \in DOMAIN c.v.items : c.v.items[n] = key
      [] OTHER -> FALSE

\* c[key] for a text key: KeyError on a dict without it, TypeError otherwise
SubscriptRaises(c, key) == ~(c.t = "object" /\ key \in DOMAIN c.v)

Subscript(c, key) == c.v[key]

\* c[key] = value: TypeError unless c is a dict
SetItemRaises(c) == c.t # "object"

SetItem(c, key, value) ==
    JObject([k \in DOMAIN c.v \cup {key} |-> IF k = key THEN value ELSE c.v[k]])

(***************************************************************************)
(* What Nominatim can answer.                                              *)
(***************************************************************************)
\* one search hit as Nominatim's JSON gives it: lat and lon are texts
Item(lat, lon) == JObject([lat |-> lat, lon |-> lon])

Lille == Item(<<"5", "0">>, <<"3">>)

Paris == Item(<<"4", "8">>, <<"2">>)

Hits == {Lille, Paris}

\* a hit whose lat is no number
BadItem == Item(<<"x">>, <<"3">>)

\* geopy's Nominatim.geocode: raises, finds nothing, or returns a Location
GeopyOutcomes ==
    {[kind |-> "raise"], [kind |-> "none"]}
    \cup {[kind |-> "location",
           latitude |-> DecimalValue(h.v.lat),
           longitude |-> DecimalValue(h.v.lon),
           raw |-> h] : h \in Hits}

\* requests.get: raises, or returns a response whose body is JSON or not
HttpOutcomes ==
    {[kind |-> "raise"],
     [kind |-> "response", ok |-> FALSE, json |-> FALSE],
     [kind |-> "response", ok |-> TRUE, json |-> FALSE],
     [kind |-> "response", ok |-> TRUE, json |-> TRUE, js |-> JArray(<<>>)],
     [kind |-> "response", ok |-> TRUE, json |-> TRUE, js |-> JArray(<<BadItem>>)]}
    \cup {[kind |-> "response", ok |-> TRUE, json |-> TRUE, js |-> JArray(<<h>>)]
          : h \in Hits}

\* a geocode result (lat, lon, raw), and no result
NoResult == [found |-> FALSE]

Result(lat, lon, raw) == [found |-> TRUE, lat |-> lat, lon |-> lon, raw |-> raw]

\* lines 139-144: {"lat": lat, "lon": lon, "raw": raw}
Entry(res) == JObject([lat |-> res.lat, lon |-> res.lon, raw |-> res.raw])

\* lines 77-84: what geocode makes of an HTTP response
HttpResult(r) ==
    IF r.ok /\ r.js.v.items # <<>>
    THEN LET it == r.js.v.items[1]
         IN  IF IsDecimal(it.v.lat) /\ IsDecimal(it.v.lon)
             THEN Result(DecimalValue(it.v.lat), DecimalValue(it.v.lon), it)
             ELSE NoResult
    ELSE NoResult

(***************************************************************************)
(* Features (lines 86-93, 123-125).                                        *)
(***************************************************************************)
\* a or b
PyOr(a, b) == IF a # None /\ a # <<>> THEN a ELSE b

Tooltip(row) ==
    strip(strip(PyOr(RowGet(row, "NomUsage", None),
                     PyOr(RowGet(row, "NomNaissance", None), <<>>)))
          \o <<" ">>
          \o strip(PyOr(RowGet(row, "Prenoms", None), <<>>)))

Popup(row, address) ==
    <<"<b>">> \o Tooltip(row) \o <<"</b><br>Date de naissance : ">>
    \o strip(PyOr(RowGet(row, "DateNaissance", None), <<"N", "/", "A">>))
    \o <<"<br>Adresse : ">> \o address

\* a slip: the coordinates in the order of the cache entry
make_featureLatLon(lon, lat, tooltip, popup, extra) ==
    [type |-> "Feature",
     geometry |-> [type |-> "Point", coordinates |-> <<lat, lon>>],
     properties |-> [name |-> tooltip, description |-> popup,
                     full_address |-> extra.full_address]]

make_feature(lon, lat, tooltip, popup, extra) ==
    [type |-> "Feature",
     geometry |-> [type |-> "Point", coordinates |-> <<lon, lat>>],
     properties |-> [name |-> tooltip, description |-> popup,
                     full_address |-> extra.full_address]]

RowFeature(row, lon, lat) ==
    LET address == build_address(row).address
    IN  make_feature(lon, lat, Tooltip(row), Popup(row, address),
                     [full_address |-> address])

(***************************************************************************)
(* The rows an input CSV is drawn from.                                    *)
(***************************************************************************)
\* every address field filled, some cells padded with blanks; the street
\* number is a number and a suffix ("12 b")
RowA ==
    [NumeroVoie |-> <<"1", "2", " ", "b">>, LibelleVoie |-> <<" ", "r", " ">>,
     Complement1 |-> <<"a">>, Complement2 |-> <<"b">>, LieuDit |-> <<"c">>,
     CodePostal |-> <<"5", "9">>, CommuneAdresse |-> <<"s">>,
     Pays |-> <<"f", " ">>,
     NomUsage |-> <<"d">>, NomNaissance |-> <<"m">>, Prenoms |-> <<" ", "j">>,
     DateNaissance |-> <<"1">>]

\* another person, the postal code is missing
RowB ==
    [RowA EXCEPT !.CodePostal = <<>>, !.NomUsage = None,
                 !.DateNaissance = None]

\* no address at all
RowE ==
    [NomUsage |-> <<"g">>, NomNaissance |-> None, Prenoms |-> None,
     NumeroVoie |-> None, LibelleVoie |-> <<>>, Complement1 |-> <<" ">>,
     Complement2 |-> <<>>, LieuDit |-> None, CodePostal |-> <<" ", " ">>]

SampleRows == {RowA, RowB, RowE}

Inputs == UNION {[1..n -> SampleRows] : n \in 0..MaxRows}

\* --limit: not given (None), or an integer
NoLimit == [given |-> FALSE]

Limit(n) == [given |-> TRUE, n |-> n]

Limits == {NoLimit, Limit(1)}

\* rows[:total]: a negative total counts from the end
Slice(rows, total) ==
    IF total >= 0 THEN SubSeq(rows, 1, IF total < Len(rows) THEN total ELSE Len(rows))
    ELSE SubSeq(rows, 1, IF Len(rows) + total > 0 THEN Len(rows) + total ELSE 0)

Min(a, b) == IF a < b THEN a ELSE b

\* line 116
Total(rows, limit) ==
    IF ~limit.given THEN Len(rows) ELSE Min(limit.n, Len(rows))

(***************************************************************************)
(* The cache files a run can find: left by this script, by an earlier      *)
(* revision of it (a [lat, lon] pair as value), or damaged.                *)
(***************************************************************************)
AddrA == build_address(RowA).address

AddrB == build_address(RowB).address

LilleEntry == Entry(Result(50, 3, Lille))

ParisEntry == Entry(Result(48, 2, Paris))

PairEntry == JArray(<<50, 3>>)

OneEntry(key, entry) == JObject([k \in {key} |-> entry])

InitCacheFiles ==
    {Absent, JsonText(JNull),
     JsonText(OneEntry(AddrA, LilleEntry)),
     JsonText(JObject((AddrA :> PairEntry) @@ (AddrB :> JObject([lat |-> 50]))))}

InitNewFiles ==
    {Absent, Garbage, JsonText(OneEntry(AddrA, ParisEntry))}

(***************************************************************************)
(* State.                                                                  *)
(***************************************************************************)
VARIABLES
    input_csv,          \* the rows of the --input file
    limit,              \* --limit
    geopy_available,    \* lines 23-27
    cache_file,         \* geocache.json
    new_cache_global,   \* geocache_new.json
    outdirs,            \* the timestamped output directories, one per run
    runs,               \* runs started so far
    status,             \* idle, running, done, crashed or killed
    pc,                 \* where the run is
    raised,             \* the call whose exception ended the run
    cache, new_global, geocache_added, geocache_new_added,
    total, i, reasons, res, coords,
    geocoded, not_geocoded, incomplete, duplicates, problematic_rows,
    address_seen,
    attempts,           \* network attempts of this run
    paused,             \* time.sleep(pause) has run since the last attempt
    queries,            \* the requests of the geocode call for the current row
    log,                \* per processed row: its coordinates and reasons
    inserted,           \* the keys whose insertion (lines 139-146) is complete
    cache_before,       \* geocache.json as the run found it
    new_before          \* geocache_new.json as the run found it

config == <<input_csv, limit, geopy_available>>

files == <<cache_file, new_cache_global>>

caches == <<cache, new_global, geocache_added, geocache_new_added>>

collections ==
    <<geocoded, not_geocoded, incomplete, duplicates, problematic_rows, address_seen>>

history == <<log, inserted, cache_before, new_before>>

vars ==
    <<config, files, outdirs, runs, status, pc, raised, caches, total, i,
      reasons, res, coords, collections, attempts, paused, queries,
      history>>

\* lat = lon = None
NoCoords == <<>>

\* a directory mkdir has just made
NewDir == [complete |-> FALSE]

\* rows[:total]
Rows == Slice(input_csv, total)

Row == Rows[i]

Address == build_address(Row).address

Missing == build_address(Row).missing

Running(at) == status = "running" /\ pc = at

Init ==
    /\ input_csv \in Inputs
    /\ limit \in Limits
    /\ geopy_available \in BOOLEAN
    /\ cache_file \in InitCacheFiles
    /\ new_cache_global \in InitNewFiles
    /\ outdirs = <<>>
    /\ runs = 0
    /\ status = "idle"
    /\ pc = "row"
    /\ raised = "none"
    /\ cache = EmptyDict
    /\ new_global = EmptyDict
    /\ geocache_added = EmptyDict
    /\ geocache_new_added = EmptyDict
    /\ total = 0
    /\ i = 1
    /\ reasons = <<>>
    /\ res = NoResult
    /\ coords = NoCoords
    /\ geocoded = <<>>
    /\ not_geocoded = <<>>
    /\ incomplete = <<>>
    /\ duplicates = <<>>
    /\ problematic_rows = <<>>
    /\ address_seen = {}
    /\ attempts = 0
    /\ paused = TRUE
    /\ queries = <<>>
    /\ log = <<>>
    /\ inserted = {}
    /\ cache_before = cache_file
    /\ new_before = new_cache_global

(***************************************************************************)
(* csv_to_geojson, lines 95-119: a new run of the script.                  *)
(***************************************************************************)
StartRun ==
    /\ status # "running"
    /\ runs < MaxRuns
    /\ runs' = runs + 1
    /\ status' = "running"
    /\ pc' = "row"
    /\ raised' = "none"
    /\ outdirs' = Append(outdirs, NewDir)
    /\ cache' = load_cache(cache_file)
    /\ new_global' = load_cache(new_cache_global)
    /\ geocache_added' = EmptyDict
    /\ geocache_new_added' = EmptyDict
    /\ total' = Total(input_csv, limit)
    /\ i' = 1
    /\ reasons' = <<>>
    /\ res' = NoResult
    /\ coords' = NoCoords
    /\ geocoded' = <<>>
    /\ not_geocoded' = <<>>
    /\ incomplete' = <<>>
    /\ duplicates' = <<>>
    /\ problematic_rows' = <<>>
    /\ address_seen' = {}
    /\ attempts' = 0
    /\ paused' = TRUE
    /\ queries' = <<>>
    /\ log' = <<>>
    /\ inserted' = {}
    /\ cache_before' = cache_file
    /\ new_before' = new_cache_global
    /\ UNCHANGED <<config, files>>

\* an exception nobody catches ends the run
Raise(exc) ==
    /\ status' = "crashed"
    /\ raised' = exc

(***************************************************************************)
(* Lines 122-136: the address of the row, the incomplete collection, the   *)
(* cache lookup and, on a miss, the entry into geocode (lines 62-64).      *)
(***************************************************************************)
\* a slip: a row counts as incomplete only with several fields missing
IsIncompleteSeveral(missing) == Len(missing) > 1

\* line 128: if missing
IsIncomplete(missing) == missing # <<>>

\* a slip: the cache is never consulted
CacheHitNever(c, address) == FALSE

\* line 133: if address in cache
CacheHit(c, address) == Contains(c, address)

ProcessRow ==
    /\ Running("row")
    /\ i <= Len(Rows)
    /\ reasons' = IF IsIncomplete(Missing) THEN <<"incomplete">> ELSE <<>>
    /\ incomplete' = IF IsIncomplete(Missing)
                     THEN Append(incomplete, RowFeature(Row, 0, 0))
                     ELSE incomplete
    /\ res' = NoResult
    /\ queries' = <<>>
    /\ IF ContainsRaises(cache)
       THEN Raise("address in cache") /\ UNCHANGED <<pc, coords>>
       ELSE IF CacheHit(cache, Address)
       THEN LET e == Subscript(cache, Address)
            IN  IF SubscriptRaises(e, "lat") \/ SubscriptRaises(e, "lon")
                THEN Raise("cache[address]") /\ UNCHANGED <<pc, coords>>
                ELSE /\ coords' = <<Subscript(e, "lat"), Subscript(e, "lon")>>
                     /\ pc' = "classify"
                     /\ UNCHANGED <<status, raised>>
       ELSE /\ coords' = NoCoords
            /\ pc' = IF Address = <<>> THEN "classify"
                     ELSE IF geopy_available THEN "geopy" ELSE "http"
            /\ UNCHANGED <<status, raised>>
    /\ UNCHANGED <<config, files, outdirs, runs, caches, total, i, geocoded,
                   not_geocoded, duplicates, problematic_rows, address_seen,
                   attempts, paused, history>>

\* a request to Nominatim: through geopy (line 66) or requests (lines 73-75)
Query(via, q) == [via |-> via, q |-> q]

(***************************************************************************)
(* NominatimGeocoder.geocode, lines 64-71: the geopy attempt.              *)
(***************************************************************************)
GeopyAttempt ==
    /\ Running("geopy")
    /\ attempts' = attempts + 1
    /\ queries' = Append(queries, Query("geopy", Address))
    /\ \E o \in GeopyOutcomes :
        CASE o.kind = "raise" ->
                /\ paused' = FALSE
                /\ pc' = "http"
                /\ UNCHANGED res
          [] o.kind = "none" ->
                /\ paused' = TRUE
                /\ pc' = "http"
                /\ UNCHANGED res
          [] o.kind = "location" ->
                /\ paused' = TRUE
                /\ res' = Result(o.latitude, o.longitude, o.raw)
                /\ pc' = "insert"
    /\ UNCHANGED <<config, files, outdirs, runs, status, raised, caches, total,
                   i, reasons, coords, collections, history>>

(***************************************************************************)
(* NominatimGeocoder.geocode, lines 73-84: the HTTP attempt.               *)
(***************************************************************************)
\* a slip: whatever geocode returns is taken for a result
IsResolvedAlways(r) == TRUE

\* line 137: if res
IsResolved(r) == r.found

HttpAttempt ==
    /\ Running("http")
    /\ attempts' = attempts + 1
    /\ queries' = Append(queries, Query("http", Address))
    /\ \E o \in HttpOutcomes :
        IF o.kind = "raise"
        THEN /\ Raise("requests.get")
             /\ paused' = FALSE
             /\ UNCHANGED <<pc, res>>
        ELSE /\ paused' = TRUE
             /\ IF o.ok /\ ~o.json
                THEN Raise("r.json") /\ UNCHANGED <<pc, res>>
                ELSE /\ res' = HttpResult(o)
                     /\ pc' = IF IsResolved(HttpResult(o)) THEN "insert"
                              ELSE "classify"
                     /\ UNCHANGED <<status, raised>>
    /\ UNCHANGED <<config, files, outdirs, runs, caches, total, i, reasons,
                   coords, collections, history>>

(***************************************************************************)
(* Lines 137-144: a miss that resolved enters the caches and the diffs.    *)
(***************************************************************************)
\* a slip: the cumulative cache is written whether or not it has the key
InCumulativeNever(ng, address) == FALSE

\* line 142: if address not in new_global, negated
InCumulative(ng, address) == Contains(ng, address)

\* a slip: the result is not kept in the cache of the run
PutInCacheNever(c, address, entry) == c

\* line 139: cache[address] = {...}
PutInCache(c, address, entry) == SetItem(c, address, entry)

\* a slip: the insertion is not recorded in the diff of the run
AddToRunDiffNever(added, address, entry) == added

\* line 140: geocache_added[address] = {...}
AddToRunDiff(added, address, entry) == SetItem(added, address, entry)

InsertEntry ==
    /\ Running("insert")
    /\ coords' = <<res.lat, res.lon>>
    /\ IF SetItemRaises(cache) \/ ContainsRaises(new_global)
          \/ (~InCumulative(new_global, Address) /\ SetItemRaises(new_global))
       THEN Raise("cache[address] = entry") /\ UNCHANGED <<pc, caches>>
       ELSE /\ cache' = PutInCache(cache, Address, Entry(res))
            /\ geocache_added' = AddToRunDiff(geocache_added, Address, Entry(res))
            /\ IF ~InCumulative(new_global, Address)
               THEN /\ new_global' = SetItem(new_global, Address, Entry(res))
                    /\ geocache_new_added' =
                           SetItem(geocache_new_added, Address, Entry(res))
               ELSE UNCHANGED <<new_global, geocache_new_added>>
            /\ pc' = "save_cache"
            /\ UNCHANGED <<status, raised>>
    /\ UNCHANGED <<config, files, outdirs, runs, total, i, reasons, res,
                   collections, attempts, paused, queries, history>>

(***************************************************************************)
(* Lines 145-146 with line 51: each save opens the file for writing, which *)
(* truncates it, and then writes the whole map.                            *)
(***************************************************************************)
OpenCacheFile ==
    /\ Running("save_cache")
    /\ cache_file' = open_for_write(cache_file)
    /\ pc' = "write_cache"
    /\ UNCHANGED <<config, new_cache_global, outdirs, runs, status, raised,
                   caches, total, i, reasons, res, coords, collections,
                   attempts, paused, queries, history>>

WriteCacheFile ==
    /\ Running("write_cache")
    /\ cache_file' = save_cache(cache)
    /\ pc' = "save_new"
    /\ UNCHANGED <<config, new_cache_global, outdirs, runs, status, raised,
                   caches, total, i, reasons, res, coords, collections,
                   attempts, paused, queries, history>>

OpenNewFile ==
    /\ Running("save_new")
    /\ new_cache_global' = open_for_write(new_cache_global)
    /\ pc' = "write_new"
    /\ UNCHANGED <<config, cache_file, outdirs, runs, status, raised,
                   caches, total, i, reasons, res, coords, collections,
                   attempts, paused, queries, history>>

WriteNewFile ==
    /\ Running("write_new")
    /\ new_cache_global' = save_cache(new_global)
    /\ inserted' = inserted \cup {Address}
    /\ pc' = "classify"
    /\ UNCHANGED <<config, cache_file, outdirs, runs, status, raised,
                   caches, total, i, reasons, res, coords, collections,
                   attempts, paused, queries, log, cache_before, new_before>>

(***************************************************************************)
(* Lines 148-163: the row's collections, reasons and problematic row.      *)
(***************************************************************************)
\* ";".join(reasons)
RECURSIVE JoinReasons(_)
JoinReasons(rs) ==
    IF rs = <<>> THEN <<>>
    ELSE IF Len(rs) = 1 THEN <<rs[1]>>
    ELSE <<rs[1], ";">> \o JoinReasons(Tail(rs))

\* a slip: no row is ever a duplicate
IsDuplicateNever(address, seen) == FALSE

\* a slip: every geocoded row is a duplicate
IsDuplicateAlways(address, seen) == TRUE

\* line 154: if address in address_seen
IsDuplicate(address, seen) == address \in seen

\* the reasons of the row once lines 148-158 have run
ReasonsAfter ==
    IF coords = NoCoords THEN Append(reasons, "not_geocoded")
    ELSE IF IsDuplicate(Address, address_seen) THEN Append(reasons, "duplicate")
    ELSE reasons

\* a slip: every row is listed, with or without a reason
IsProblematicAlways(rs) == TRUE

\* line 160: if reasons
IsProblematic(rs) == rs # <<>>

Classify ==
    /\ Running("classify")
    /\ IF coords = NoCoords
       THEN /\ not_geocoded' = Append(not_geocoded, RowFeature(Row, 0, 0))
            /\ UNCHANGED <<geocoded, duplicates, address_seen>>
       ELSE LET feat == RowFeature(Row, coords[2], coords[1])
            IN  /\ geocoded' = Append(geocoded, feat)
                /\ IF IsDuplicate(Address, address_seen)
                   THEN /\ duplicates' = Append(duplicates, feat)
                        /\ UNCHANGED address_seen
                   ELSE /\ address_seen' = address_seen \cup {Address}
                        /\ UNCHANGED duplicates
                /\ UNCHANGED not_geocoded
    /\ reasons' = ReasonsAfter
    /\ problematic_rows' =
           IF IsProblematic(ReasonsAfter)
           THEN Append(problematic_rows,
                       [row |-> Row, reason |-> JoinReasons(ReasonsAfter)])
           ELSE problematic_rows
    /\ log' = Append(log, [coords |-> coords, reasons |-> ReasonsAfter])
    /\ i' = i + 1
    /\ pc' = "row"
    /\ queries' = <<>>
    /\ UNCHANGED <<config, files, outdirs, runs, status, raised, caches, total,
                   res, coords, incomplete, attempts, paused, inserted,
                   cache_before, new_before>>

(***************************************************************************)
(* Lines 165-201: the loop is over, the output directory is written.       *)
(***************************************************************************)
\* lines 191-201: a diff is saved only when it is not empty
DiffFile(diff) == IF diff.v # <<>> THEN save_cache(diff) ELSE Absent

\* a slip: the duplicates are left out of the geocoded count
QualityReportDistinct(t, g, ng, inc, dup) ==
    [total |-> t, geocoded |-> Len(g) - Len(dup), not_geocoded |-> Len(ng),
     incomplete |-> Len(inc), duplicates |-> Len(dup)]

\* lines 177-181: the line of quality_report.csv under its header
QualityReport(t, g, ng, inc, dup) ==
    [total |-> t, geocoded |-> Len(g), not_geocoded |-> Len(ng),
     incomplete |-> Len(inc), duplicates |-> Len(dup)]

Finish ==
    /\ Running("row")
    /\ i > Len(Rows)
    /\ outdirs' =
           [outdirs EXCEPT ![runs] =
               [complete |-> TRUE,
                output_umap |-> geocoded,
                output_not_geocoded |-> not_geocoded,
                output_incomplete |-> incomplete,
                output_duplicates |-> duplicates,
                quality_report |->
                    QualityReport(total, geocoded, not_geocoded, incomplete,
                                  duplicates),
                problematic_rows |-> problematic_rows,
                geocache_added |-> DiffFile(geocache_added),
                geocache_new_added |-> DiffFile(geocache_new_added)]]
    /\ status' = "done"
    /\ UNCHANGED <<config, files, runs, pc, raised, caches, total, i, reasons,
                   res, coords, collections, attempts, paused, queries,
                   history>>

(***************************************************************************)
(* The process is terminated from outside (ctrl-c, kill) wherever it is:   *)
(* what it held in memory is gone, the files stay as they are.             *)
(***************************************************************************)
Kill ==
    /\ status = "running"
    /\ status' = "killed"
    /\ pc' = "row"
    /\ cache' = EmptyDict
    /\ new_global' = EmptyDict
    /\ geocache_added' = EmptyDict
    /\ geocache_new_added' = EmptyDict
    /\ total' = 0
    /\ i' = 1
    /\ reasons' = <<>>
    /\ res' = NoResult
    /\ coords' = NoCoords
    /\ geocoded' = <<>>
    /\ not_geocoded' = <<>>
    /\ incomplete' = <<>>
    /\ duplicates' = <<>>
    /\ problematic_rows' = <<>>
    /\ address_seen' = {}
    /\ log' = <<>>
    /\ attempts' = 0
    /\ paused' = TRUE
    /\ queries' = <<>>
    /\ UNCHANGED <<config, files, outdirs, runs, raised, inserted,
                   cache_before, new_before>>

Next ==
    \/ StartRun
    \/ ProcessRow
    \/ GeopyAttempt
    \/ HttpAttempt
    \/ InsertEntry
    \/ OpenCacheFile
    \/ WriteCacheFile
    \/ OpenNewFile
    \/ WriteNewFile
    \/ Classify
    \/ Finish
    \/ Kill

Spec == Init /\ [][Next]_vars

\* a first run in a directory that holds neither cache file yet
InitFresh == Init /\ cache_file = Absent /\ new_cache_global = Absent

SpecFresh == InitFresh /\ [][Next]_vars

(***************************************************************************)
(* What the properties speak of.                                           *)
(***************************************************************************)
Ended == status \in {"done", "crashed", "killed"}

\* the rows classified so far in this run
Processed == 1..Len(log)

RowAddress(n) == build_address(Rows[n]).address

RowMissing(n) == build_address(Rows[n]).missing

HasCoords(n) == log[n].coords # NoCoords

Tagged(n, reason) == \E j \in 1..Len(log[n].reasons) : log[n].reasons[j] = reason

\* the entry a load of the file gives for a key
FileEntry(file, k) == load_cache(file).v[k]

\* the run before this one ran to its end
PreviousRunCompleted == runs >= 2 /\ outdirs[runs - 1].complete

SameCollections(d, e) ==
    /\ d.output_umap = e.output_umap
    /\ d.output_not_geocoded = e.output_not_geocoded
    /\ d.output_incomplete = e.output_incomplete
    /\ d.output_duplicates = e.output_duplicates

(***************************************************************************)
(* C1. Cumulative-cache monotonicity: whatever way a run ends, every key   *)
(* geocache_new.json held before the run is still in it afterwards, with   *)
(* the same entry.                                                         *)
(* Fails: a run killed inside save_cache, between the truncating open and  *)
(* the write, leaves geocache_new.json empty.                              *)
(***************************************************************************)
C1_CumulativeMonotone ==
    Ended =>
        \A k \in FileKeys(new_before) :
            /\ k \in FileKeys(new_cache_global)
            /\ FileEntry(new_cache_global, k) = FileEntry(new_before, k)

\* the same over the runs that return or raise: this much the code keeps
C1_MonotoneUnlessKilled ==
    status \in {"done", "crashed"} =>
        \A k \in FileKeys(new_before) :
            /\ k \in FileKeys(new_cache_global)
            /\ FileEntry(new_cache_global, k) = FileEntry(new_before, k)

(***************************************************************************)
(* C2. Idempotence as claimed: a run that follows a completed run on the   *)
(* same input and finds every non-empty address of the input in            *)
(* geocache.json issues no geocoding request and writes the same four      *)
(* collections as the run before.                                          *)
(***************************************************************************)
WarmCache ==
    \A n \in 1..Len(Rows) :
        RowAddress(n) = <<>> \/ RowAddress(n) \in FileKeys(cache_before)

C2_IdempotentWhenWarm ==
    (status = "done" /\ PreviousRunCompleted /\ WarmCache) =>
        /\ attempts = 0
        /\ SameCollections(outdirs[runs], outdirs[runs - 1])

\* the run before gave coordinates to every row that has an address
PreviousRunResolvedAll ==
    /\ PreviousRunCompleted
    /\ \A j \in 1..Len(outdirs[runs - 1].output_not_geocoded) :
           outdirs[runs - 1].output_not_geocoded[j].properties.full_address = <<>>

(***************************************************************************)
(* C2, amended. A run that follows a completed run on the same input, in   *)
(* which every row with a non-empty address got coordinates, issues no     *)
(* geocoding request and writes the same four collections.                 *)
(***************************************************************************)
C2_IdempotentAfterFullRun ==
    (status = "done" /\ PreviousRunResolvedAll) =>
        /\ attempts = 0
        /\ SameCollections(outdirs[runs], outdirs[runs - 1])

\* a second run after a first one that had to resolve and insert addresses
C2_Witness ==
    /\ status = "done"
    /\ PreviousRunResolvedAll
    /\ outdirs[runs - 1].geocache_added # Absent
    /\ Len(geocoded) >= 2
    /\ duplicates # <<>>
    /\ attempts = 0

(***************************************************************************)
(* C3. Run-diff invariant: when a run ends, geocache_new_added holds       *)
(* exactly the keys inserted this run that geocache_new.json did not have  *)
(* before the run; a key it had and that the run inserted is in            *)
(* geocache.json and not in geocache_new_added.                            *)
(***************************************************************************)
C3_RunDiff ==
    status = "done" =>
        /\ DictKeys(geocache_new_added) = inserted \ FileKeys(new_before)
        /\ \A k \in inserted \cap FileKeys(new_before) :
               /\ k \in FileKeys(cache_file)
               /\ k \notin DictKeys(geocache_new_added)

\* one key inserted that the cumulative cache had, one that it had not
C3_Witness ==
    /\ status = "done"
    /\ inserted \cap FileKeys(new_before) # {}
    /\ inserted \ FileKeys(new_before) # {}

(***************************************************************************)
(* C4. Duplicate detection as claimed: of any two rows of a run with the   *)
(* same canonical address that both got coordinates, the earlier is not    *)
(* tagged duplicate and the later is.                                      *)
(***************************************************************************)
C4_AnyTwoRows ==
    \A m \in Processed : \A n \in Processed :
        (m < n /\ RowAddress(m) = RowAddress(n) /\ HasCoords(m) /\ HasCoords(n)) =>
            /\ ~Tagged(m, "duplicate")
            /\ Tagged(n, "duplicate")

\* the features of the rows 1..n that are tagged duplicate, in input order
RECURSIVE DuplicateFeatures(_)
DuplicateFeatures(n) ==
    IF n = 0 THEN <<>>
    ELSE IF Tagged(n, "duplicate")
    THEN Append(DuplicateFeatures(n - 1),
                RowFeature(Rows[n], log[n].coords[2], log[n].coords[1]))
    ELSE DuplicateFeatures(n - 1)

(***************************************************************************)
(* C4, amended. Of any two rows of a run with the same canonical address   *)
(* that both got coordinates, the later is tagged duplicate and is in the  *)
(* duplicates collection; the earlier is tagged duplicate only if a row    *)
(* before it had the same address and got coordinates.                     *)
(***************************************************************************)
C4_FirstResolvedIsOriginal ==
    /\ \A m \in Processed : \A n \in Processed :
        (m < n /\ RowAddress(m) = RowAddress(n) /\ HasCoords(m) /\ HasCoords(n)) =>
            /\ Tagged(n, "duplicate")
            /\ Tagged(m, "duplicate") =>
                   \E l \in Processed :
                       l < m /\ RowAddress(l) = RowAddress(m) /\ HasCoords(l)
    /\ (pc = "row" /\ status \in {"running", "done"}) =>
           duplicates = DuplicateFeatures(Len(log))

\* three rows with one address, all with coordinates
C4_Witness ==
    /\ Len(log) = 3
    /\ \A n \in Processed : RowAddress(n) = RowAddress(1) /\ HasCoords(n)
    /\ ~Tagged(1, "duplicate")
    /\ Tagged(2, "duplicate")
    /\ Len(duplicates) = 2

(***************************************************************************)
(* C5. Classifier duplicate rule as claimed: a row is tagged duplicate     *)
(* exactly when it has coordinates and an earlier row of the run has the   *)
(* same canonical address.                                                 *)
(***************************************************************************)
C5_SeenEarlier ==
    \A n \in Processed :
        Tagged(n, "duplicate") <=>
            /\ HasCoords(n)
            /\ \E m \in Processed : m < n /\ RowAddress(m) = RowAddress(n)

(***************************************************************************)
(* C5, amended. A row is tagged duplicate exactly when it has coordinates  *)
(* and an earlier row of the run has the same canonical address and got    *)
(* coordinates too.                                                        *)
(***************************************************************************)
C5_SeenEarlierWithCoords ==
    \A n \in Processed :
        Tagged(n, "duplicate") <=>
            /\ HasCoords(n)
            /\ \E m \in Processed :
                   m < n /\ RowAddress(m) = RowAddress(n) /\ HasCoords(m)

\* the address failed to resolve for the first row and resolved for the second
C5_Witness ==
    /\ Len(log) >= 2
    /\ RowAddress(1) = RowAddress(2)
    /\ ~HasCoords(1)
    /\ HasCoords(2)
    /\ ~Tagged(2, "duplicate")

\* the features the rows 1..n owe to each collection, in input order
RECURSIVE IncompleteFeatures(_)
IncompleteFeatures(n) ==
    IF n = 0 THEN <<>>
    ELSE IF RowMissing(n) # <<>>
    THEN Append(IncompleteFeatures(n - 1), RowFeature(Rows[n], 0, 0))
    ELSE IncompleteFeatures(n - 1)

RECURSIVE NotGeocodedFeatures(_)
NotGeocodedFeatures(n) ==
    IF n = 0 THEN <<>>
    ELSE IF ~HasCoords(n)
    THEN Append(NotGeocodedFeatures(n - 1), RowFeature(Rows[n], 0, 0))
    ELSE NotGeocodedFeatures(n - 1)

RECURSIVE GeocodedFeatures(_)
GeocodedFeatures(n) ==
    IF n = 0 THEN <<>>
    ELSE IF HasCoords(n)
    THEN Append(GeocodedFeatures(n - 1),
                RowFeature(Rows[n], log[n].coords[2], log[n].coords[1]))
    ELSE GeocodedFeatures(n - 1)

\* the run is between two rows, or has written its output
BetweenRows == pc = "row" /\ status \in {"running", "done"}

(***************************************************************************)
(* C6. Reason non-exclusivity: every row is in the collection of each      *)
(* reason that applies to it. A row with missing fields is in the          *)
(* incomplete collection and tagged incomplete whether or not it resolves; *)
(* without coordinates it is also tagged not_geocoded and in the           *)
(* not_geocoded collection, with coordinates it is also in the geocoded    *)
(* collection.                                                             *)
(***************************************************************************)
C6_NonExclusive ==
    /\ BetweenRows =>
        /\ incomplete = IncompleteFeatures(Len(log))
        /\ not_geocoded = NotGeocodedFeatures(Len(log))
        /\ geocoded = GeocodedFeatures(Len(log))
        /\ \A n \in Processed :
            /\ Tagged(n, "incomplete") <=> RowMissing(n) # <<>>
            /\ Tagged(n, "not_geocoded") <=> ~HasCoords(n)
    /\ status = "done" =>
        /\ outdirs[runs].output_incomplete = incomplete
        /\ outdirs[runs].output_not_geocoded = not_geocoded
        /\ outdirs[runs].output_umap = geocoded

\* a row with a missing field that failed to resolve, and one that resolved
C6_Witness ==
    /\ status = "done"
    /\ \E m \in Processed : \E n \in Processed :
        /\ RowMissing(m) # <<>> /\ RowAddress(m) # <<>> /\ ~HasCoords(m)
        /\ Tagged(m, "incomplete") /\ Tagged(m, "not_geocoded")
        /\ RowMissing(n) # <<>> /\ HasCoords(n)
        /\ Len(incomplete) >= 2 /\ not_geocoded # <<>> /\ geocoded # <<>>

(***************************************************************************)
(* C7. The resolver never raises: no run ends on an exception out of       *)
(* NominatimGeocoder.geocode.                                              *)
(* Fails: requests.get (line 75) and r.json() (line 78) stand outside any  *)
(* try.                                                                    *)
(***************************************************************************)
C7_GeocodeNeverRaises ==
    ~(status = "crashed" /\ raised \in {"requests.get", "r.json"})

(***************************************************************************)
(* C8. Cache read accepts both encodings: a lookup never ends the run, and *)
(* a row whose address is stored as a [lat, lon] pair gets that pair as    *)
(* its coordinates.                                                        *)
(* Fails: line 134 subscripts the stored value with "lat" and "lon".       *)
(***************************************************************************)
C8_BothEncodings ==
    /\ ~(status = "crashed" /\ raised = "cache[address]")
    /\ \A n \in Processed :
        (/\ RowAddress(n) \in FileKeys(cache_before)
         /\ FileEntry(cache_before, RowAddress(n)).t = "array") =>
            log[n].coords = FileEntry(cache_before, RowAddress(n)).v.items

(***************************************************************************)
(* C9. Persistence per insertion: when the next row is taken up both files *)
(* hold what the run has inserted, and after an interruption at any point  *)
(* both files hold every key whose insertion was complete.                 *)
(* Fails: save_cache truncates the file before it writes it.               *)
(***************************************************************************)
C9_SurvivesInterruption ==
    /\ (status = "running" /\ pc = "row" /\ inserted # {}) =>
        /\ cache_file = save_cache(cache)
        /\ new_cache_global = save_cache(new_global)
    /\ status = "killed" =>
        /\ inserted \subseteq FileKeys(cache_file)
        /\ inserted \subseteq FileKeys(new_cache_global)

\* the first half alone: both files are saved before the next row
C9_SavedBeforeNextRow ==
    (status = "running" /\ pc = "row" /\ inserted # {}) =>
        /\ cache_file = save_cache(cache)
        /\ new_cache_global = save_cache(new_global)

(***************************************************************************)
(* C10. Rate limit: within a run every network attempt but the first comes *)
(* after a pause since the attempt before it.                              *)
(* Fails: an exception of the geopy attempt skips the sleep of line 67.    *)
(***************************************************************************)
C10_PauseBetweenAttempts ==
    [][attempts' = attempts + 1 => paused]_vars

(***************************************************************************)
(* C11. load_cache tolerates corruption: whatever a cache file holds that   *)
(* is no JSON object of entries (nothing, empty or truncated text, text    *)
(* that is no JSON, JSON of another kind), the run starts with an empty    *)
(* map for it and does not end on an exception caused by the loaded value. *)
(* Fails: line 45 returns whatever json.loads gives, so a file holding     *)
(* null is loaded as None and line 133 raises TypeError.                   *)
(***************************************************************************)
\* the file holds the JSON of a map
IsCacheText(file) == file.kind = "json" /\ IsDict(file.value)

\* the run has loaded its caches and not yet taken up a row
JustLoaded == status = "running" /\ pc = "row" /\ i = 1

C11_LoadToleratesCorruption ==
    /\ (JustLoaded /\ ~IsCacheText(cache_before)) => cache = EmptyDict
    /\ (JustLoaded /\ ~IsCacheText(new_before)) => new_global = EmptyDict
    /\ ~(status = "crashed"
         /\ raised \in {"address in cache", "cache[address] = entry"})

\* a file that is absent or that json.loads rejects: this much the code keeps
C11_UnreadableGivesEmpty ==
    /\ (JustLoaded /\ cache_before.kind # "json") => cache = EmptyDict
    /\ (JustLoaded /\ new_before.kind # "json") => new_global = EmptyDict
    /\ (status = "crashed"
        /\ raised \in {"address in cache", "cache[address] = entry"}) =>
           cache_before.kind = "json" \/ new_before.kind = "json"

\* the run is inside NominatimGeocoder.geocode, about to send a request
Requesting == Running("geopy") \/ Running("http")

(***************************************************************************)
(* C12. Empty address is not attempted: for a row whose canonical address  *)
(* is the empty text no geocoding request is sent, and the row is not      *)
(* classified not_geocoded.                                                *)
(* Fails: geocode returns None for it (line 63), lat stays None, and line  *)
(* 148 classifies the row not_geocoded like any row that failed.           *)
(***************************************************************************)
C12_EmptyNotAttempted ==
    /\ Requesting => Address # <<>>
    /\ \A n \in Processed :
        RowAddress(n) = <<>> =>
            /\ ~Tagged(n, "not_geocoded")
            /\ \A j \in 1..Len(not_geocoded) :
                   not_geocoded[j].properties.full_address # <<>>

\* no request is sent for an empty address: this much the code keeps
C12_NoRequestForEmpty == Requesting => Address # <<>>

\* the length of the longest prefix of s made of characters of set
RECURSIVE SpanLen(_, _)
SpanLen(s, set) ==
    IF s = <<>> \/ Head(s) \notin set THEN 0 ELSE 1 + SpanLen(Tail(s), set)

\* the address without its leading numeric token and the whitespace run after
\* it; the address itself when it does not begin with one
ReducedAddress(addr) ==
    LET d == SpanLen(addr, Digits)
        rest == SubSeq(addr, d + 1, Len(addr))
        w == SpanLen(rest, Whitespace)
    IN  IF d > 0 /\ w > 0 THEN SubSeq(rest, w + 1, Len(rest)) ELSE addr

\* geocode has returned None after sending requests for the row's address
ResolutionFailed ==
    Running("classify") /\ coords = NoCoords /\ queries # <<>>

(***************************************************************************)
(* C13. Fallback tier 2: when the requests with the full canonical address *)
(* have failed and the address begins with a numeric token, the resolver   *)
(* has also asked the provider of its first request for the address        *)
(* without that token and the whitespace after it, before the row is left  *)
(* without coordinates (a success of that retry would be the row's result).*)
(* Fails: geocode sends the full address only, through geopy (line 66) and *)
(* through requests (line 75).                                             *)
(***************************************************************************)
C13_RetryWithoutNumber ==
    (ResolutionFailed /\ ReducedAddress(Address) # Address) =>
        \E j \in 1..Len(queries) :
            /\ queries[j].via = queries[1].via
            /\ queries[j].q = ReducedAddress(Address)

\* every request of geocode carries the full address: what the code does
C13_FullAddressOnly ==
    \A j \in 1..Len(queries) : queries[j].q = Address

\* an address with a numeric token failed after both requests were sent
C13_FailedWithNumber ==
    /\ ResolutionFailed
    /\ ReducedAddress(Address) # Address
    /\ ReducedAddress(Address) # <<>>
    /\ Len(queries) = 2

\* the three rows of the example: A complete, B without postal code, C with
\* the address of A
ExampleRows == <<RowA, RowB, RowA>>

(***************************************************************************)
(* C14. Quality-report counts: the report of a run counts as geocoded the  *)
(* rows with coordinates (duplicates and incomplete ones included), as     *)
(* not_geocoded the rows without, as incomplete the rows with missing      *)
(* fields and as duplicates the rows tagged duplicate; for the rows A, B   *)
(* (no postal code), C (address of A), all resolved, it reads total 3,     *)
(* geocoded 3, not_geocoded 0, incomplete 1, duplicates 1.                 *)
(***************************************************************************)
C14_ReportCounts ==
    status = "done" =>
        LET q == outdirs[runs].quality_report
        IN  /\ q.geocoded = Cardinality({n \in Processed : HasCoords(n)})
            /\ q.not_geocoded = Cardinality({n \in Processed : ~HasCoords(n)})
            /\ q.incomplete =
                   Cardinality({n \in Processed : RowMissing(n) # <<>>})
            /\ q.duplicates =
                   Cardinality({n \in Processed : Tagged(n, "duplicate")})
            /\ (Rows = ExampleRows /\ \A n \in Processed : HasCoords(n)) =>
                   q = [total |-> 3, geocoded |-> 3, not_geocoded |-> 0,
                        incomplete |-> 1, duplicates |-> 1]

\* the example has run, its addresses resolved by requests of this run
C14_Witness ==
    /\ status = "done"
    /\ Rows = ExampleRows
    /\ Len(log) = 3
    /\ \A n \in Processed : HasCoords(n)
    /\ attempts > 0
    /\ outdirs[runs].quality_report.geocoded = 3
    /\ outdirs[runs].quality_report.duplicates = 1

\* row n has coordinates and so has an earlier row with its address
SeenBefore(n) ==
    /\ HasCoords(n)
    /\ \E m \in Processed : m < n /\ RowAddress(m) = RowAddress(n) /\ HasCoords(m)

\* the reasons that apply to row n, in the fixed order
ReasonsOf(n) ==
    (IF RowMissing(n) # <<>> THEN <<"incomplete">> ELSE <<>>)
    \o (IF ~HasCoords(n) THEN <<"not_geocoded">> ELSE <<>>)
    \o (IF SeenBefore(n) THEN <<"duplicate">> ELSE <<>>)

\* the listing the rows 1..n are owed: a row per flagged row, in input order
RECURSIVE ProblematicRows(_)
ProblematicRows(n) ==
    IF n = 0 THEN <<>>
    ELSE IF ReasonsOf(n) # <<>>
    THEN Append(ProblematicRows(n - 1),
                [row |-> Rows[n], reason |-> JoinReasons(ReasonsOf(n))])
    ELSE ProblematicRows(n - 1)

(***************************************************************************)
(* C15. Problematic-rows listing: a processed row is in problematic_rows   *)
(* exactly when it has a reason, once and in input order, and its reason   *)
(* column joins with semicolons exactly its reasons in the order           *)
(* incomplete, not_geocoded, duplicate.                                    *)
(***************************************************************************)
C15_ProblematicRows ==
    /\ BetweenRows =>
        /\ problematic_rows = ProblematicRows(Len(log))
        /\ \A n \in Processed : log[n].reasons = ReasonsOf(n)
    /\ status = "done" =>
        outdirs[runs].problematic_rows = problematic_rows

\* a row with two reasons, a row with none, a duplicate
C15_Witness ==
    /\ status = "done"
    /\ Len(log) = 3
    /\ ReasonsOf(1) = <<"incomplete", "not_geocoded">>
    /\ ReasonsOf(2) = <<>>
    /\ ReasonsOf(3) = <<"duplicate">>
    /\ Len(outdirs[runs].problematic_rows) = 2
    /\ outdirs[runs].problematic_rows[1].reason =
           <<"incomplete", ";", "not_geocoded">>
    /\ outdirs[runs].problematic_rows[2].row = Rows[3]

(***************************************************************************)
(* C16. Axis order: the feature of a row with coordinates, read from the   *)
(* cache or resolved in this run, holds [longitude, latitude], where the   *)
(* cache entry and the resolver's answer give latitude first; the feature  *)
(* of a row without coordinates holds the placeholder [0, 0].              *)
(***************************************************************************)
C16_LonLat ==
    /\ \A j \in 1..Len(geocoded) :
        LET a == geocoded[j].properties.full_address
        IN  /\ a \in DictKeys(cache)
            /\ geocoded[j].geometry.coordinates =
                   <<cache.v[a].v.lon, cache.v[a].v.lat>>
            /\ geocoded[j].geometry.coordinates =
                   <<DecimalValue(cache.v[a].v.raw.v.lon),
                     DecimalValue(cache.v[a].v.raw.v.lat)>>
    /\ \A n \in Processed :
        HasCoords(n) =>
            log[n].coords = <<cache.v[RowAddress(n)].v.lat,
                              cache.v[RowAddress(n)].v.lon>>
    /\ \A j \in 1..Len(not_geocoded) :
        not_geocoded[j].geometry.coordinates = <<0, 0>>

\* one row served by the cache, one resolved by this run, one without
\* coordinates
C16_Witness ==
    /\ status = "done"
    /\ Len(not_geocoded) = 1
    /\ \E m \in Processed : \E n \in Processed :
        /\ HasCoords(m) /\ RowAddress(m) \in FileKeys(cache_before)
        /\ HasCoords(n) /\ RowAddress(n) \in inserted
        /\ log[m].coords = <<50, 3>>
        /\ geocoded[1].geometry.coordinates \in {<<3, 50>>, <<2, 48>>}
        /\ geocoded[2].geometry.coordinates \in {<<3, 50>>, <<2, 48>>}

\* every run before this one ran to its end
EarlierRunsCompleted == \A r \in 1..(runs - 1) : outdirs[r].complete

(***************************************************************************)
(* C17. Full cache contained in the cumulative cache: starting from two    *)
(* absent cache files, whenever a run starts, every key of geocache.json   *)
(* is a key of geocache_new.json, whether the runs before it completed or  *)
(* were interrupted.                                                       *)
(* Fails: line 145 saves geocache.json before line 146 saves               *)
(* geocache_new.json; a run interrupted in between leaves the new key in   *)
(* the first file only.                                                    *)
(***************************************************************************)
C17_FullInCumulative ==
    JustLoaded => FileKeys(cache_file) \subseteq FileKeys(new_cache_global)

\* the same after runs that all ran to their end: this much the code keeps
C17_ContainedAfterCompletedRuns ==
    (JustLoaded /\ EarlierRunsCompleted) =>
        FileKeys(cache_file) \subseteq FileKeys(new_cache_global)

(***************************************************************************)
(* C18. Full-cache diff is exact: when a run ends, the keys of             *)
(* geocache_added are the keys geocache.json has now and had not before    *)
(* the run, each entry of the diff is the entry geocache.json holds for    *)
(* the key, and the keys of geocache_new_added are among those of          *)
(* geocache_added; a completed run writes both diffs to its directory.     *)
(***************************************************************************)
C18_FullDiffExact ==
    /\ status \in {"done", "crashed"} =>
        /\ DictKeys(geocache_added) =
               FileKeys(cache_file) \ FileKeys(cache_before)
        /\ \A k \in DictKeys(geocache_added) :
               geocache_added.v[k] = FileEntry(cache_file, k)
        /\ DictKeys(geocache_new_added) \subseteq DictKeys(geocache_added)
    /\ status = "done" =>
        /\ outdirs[runs].geocache_added = DiffFile(geocache_added)
        /\ outdirs[runs].geocache_new_added = DiffFile(geocache_new_added)

\* two insertions, one of a key the cumulative cache had already
C18_Witness ==
    /\ status = "done"
    /\ Cardinality(DictKeys(geocache_added)) = 2
    /\ Cardinality(DictKeys(geocache_new_added)) = 1
    /\ outdirs[runs].geocache_added = JsonText(geocache_added)

\* an insertion into a cache that had another key before the run
C18_WitnessGrown ==
    /\ status = "done"
    /\ FileKeys(cache_before) # {}
    /\ DictKeys(geocache_added) # {}
    /\ FileKeys(cache_file) = FileKeys(cache_before) \cup inserted

\* every row so far that has the address of the current row failed to resolve
FailedSoFar ==
    /\ Address # <<>>
    /\ \E m \in Processed : RowAddress(m) = Address
    /\ \A m \in Processed : RowAddress(m) = Address => ~HasCoords(m)

C19_WitnessAgain ==
    /\ Running("classify")
    /\ FailedSoFar
    /\ Len(queries) = 2
    /\ coords = NoCoords

\* the run is inside lines 137-146, the branch of a miss that resolved
Inserting ==
    pc \in {"insert", "save_cache", "write_cache", "save_new", "write_new"}

(***************************************************************************)
(* C20. Frame of a non-inserting record: the steps of a row whose address  *)
(* is in the cache, or whose resolution fails, change neither cache or     *)
(* new_global in memory, nor geocache.json or geocache_new.json, nor       *)
(* geocache_added or geocache_new_added; only a row whose address missed   *)
(* the cache and was resolved by a request enters the inserting branch.    *)
(***************************************************************************)
C20_NonInsertingFrame ==
    [][(status = "running" /\ status' \in {"running", "done", "crashed"}) =>
          /\ ~Inserting => UNCHANGED <<caches, files>>
          /\ pc' = "insert" =>
                /\ res'.found
                /\ queries' # <<>>
                /\ ~Contains(cache, Address)]_vars

\* a run of a row served by the cache and of a row that failed to resolve has
\* ended with the caches, the files and the diffs as it found them
C20_Witness ==
    /\ status = "done"
    /\ \E m \in Processed : \E n \in Processed :
        /\ HasCoords(m) /\ RowAddress(m) \in FileKeys(cache_before)
        /\ ~HasCoords(n) /\ RowAddress(n) # <<>>
    /\ attempts > 0
    /\ inserted = {}
    /\ cache = load_cache(cache_before)
    /\ new_global = load_cache(new_before)
    /\ cache_file = cache_before
    /\ new_cache_global = new_before
    /\ geocache_added = EmptyDict
    /\ geocache_new_added = EmptyDict

=============================================================================
